---- MODULE Spec2Model ----
(***************************************************************************)
(* A model of the interactive shell in src/cmd/myshell/main.go: the        *)
(* quote-aware tokenizer (parseUserInput), the raw-mode line editor with   *)
(* tab completion (readInput), and the dispatch / redirection layer        *)
(* (main, redirect, the builtins).                                         *)
(*                                                                         *)
(* Text is a sequence of strings.  A line, a token and a file name are     *)
(* sequences of one-character strings; a message literal of the source is  *)
(* one element, so that "+" of the source is \o here.                      *)
(***************************************************************************)
EXTENDS Integers, Sequences, FiniteSets, TLC

VARIABLES
    \* parseUserInput, one loop iteration per step
    line, pos, args, current, inSingleQuote, inDoubleQuote, escaped, returned,
    \* readInput: the terminal mode, the locals buffer, tabCount, b (lastKey)
    \* and input, and what the last keystroke wrote to the terminal (term)
    raw, buffer, tabCount, lastKey, input, term,
    \* main: where the process is (pc), the text the dispatcher wrote to
    \* os.Stdout / os.Stderr since the top of the current loop iteration,
    \* the regular files written by redirect, the PWD environment value,
    \* the number of completed iterations, and the locals of the loop body
    pc, stdout, stderr, files, pwd, ncmd, cmd

tokVars == <<line, pos, args, current, inSingleQuote, inDoubleQuote, escaped, returned>>

edVars == <<raw, buffer, tabCount, lastKey, input, term>>

mainVars == <<pc, stdout, stderr, files, pwd, ncmd, cmd>>

vars == <<tokVars, edVars, mainVars>>

----------------------------------------------------------------------------
(* Bounds *)

MaxLineLen == 4

\* the longest buffer a keystroke is still appended to
MaxBuf == 4

\* the largest tabCount at which Tab is still pressed
MaxTabCount == 2

\* the number of iterations of the loop of main
MaxCmds == 2

----------------------------------------------------------------------------
(* Generic helpers *)

Range(s) == {s[i] : i \in 1..Len(s)}

SeqsUpTo(S, n) == UNION {[1..k -> S] : k \in 0..n}

BACKSLASH == "\\"
DQUOTE == "\""
SQUOTE == "'"
SPACE == " "
DOLLAR == "$"

----------------------------------------------------------------------------
(* parseUserInput *)


TokAlphabet == {"a", SPACE, SQUOTE, DQUOTE, BACKSLASH, DOLLAR}

ParseStart ==
    [args |-> <<>>, current |-> <<>>, inSingleQuote |-> FALSE,
     inDoubleQuote |-> FALSE, escaped |-> FALSE]

StepBackslash_InSingleQuote(st) ==
    IF st.escaped
    THEN [st EXCEPT !.current = Append(@, BACKSLASH), !.escaped = FALSE]
    ELSE [st EXCEPT !.escaped = TRUE]

\* case '\\'
StepBackslash(st) ==
    IF st.escaped \/ st.inSingleQuote
    THEN [st EXCEPT !.current = Append(@, BACKSLASH), !.escaped = FALSE]
    ELSE [st EXCEPT !.escaped = TRUE]

\* case '"'
StepDoubleQuote(st) ==
    LET s1 == IF st.escaped \/ st.inSingleQuote
              THEN [st EXCEPT !.current = Append(@, DQUOTE)]
              ELSE [st EXCEPT !.inDoubleQuote = ~@]
    IN [s1 EXCEPT !.escaped = FALSE]

\* case '\''
StepSingleQuote(st) ==
    LET s1 == IF st.inDoubleQuote /\ st.escaped
              THEN [st EXCEPT !.current = Append(@, BACKSLASH)]
              ELSE st
        s2 == IF st.escaped \/ st.inDoubleQuote
              THEN [s1 EXCEPT !.current = Append(@, SQUOTE)]
              ELSE [s1 EXCEPT !.inSingleQuote = ~@]
    IN [s2 EXCEPT !.escaped = FALSE]

StepSpace_NoEmptyGuard(st) ==
    LET s1 == IF st.inDoubleQuote /\ st.escaped
              THEN [st EXCEPT !.current = Append(@, BACKSLASH)]
              ELSE st
        s2 == IF st.escaped \/ st.inSingleQuote \/ st.inDoubleQuote
              THEN [s1 EXCEPT !.current = Append(@, SPACE)]
              ELSE [s1 EXCEPT !.args = Append(@, s1.current), !.current = <<>>]
    IN [s2 EXCEPT !.escaped = FALSE]

StepSpace_NoReset(st) ==
    LET s1 == IF st.inDoubleQuote /\ st.escaped
              THEN [st EXCEPT !.current = Append(@, BACKSLASH)]
              ELSE st
        s2 == IF st.escaped \/ st.inSingleQuote \/ st.inDoubleQuote
              THEN [s1 EXCEPT !.current = Append(@, SPACE)]
              ELSE IF Len(s1.current) > 0
                   THEN [s1 EXCEPT !.args = Append(@, s1.current)]
                   ELSE s1
    IN [s2 EXCEPT !.escaped = FALSE]

\* case ' '
StepSpace(st) ==
    LET s1 == IF st.inDoubleQuote /\ st.escaped
              THEN [st EXCEPT !.current = Append(@, BACKSLASH)]
              ELSE st
        s2 == IF st.escaped \/ st.inSingleQuote \/ st.inDoubleQuote
              THEN [s1 EXCEPT !.current = Append(@, SPACE)]
              ELSE IF Len(s1.current) > 0
                   THEN [s1 EXCEPT !.args = Append(@, s1.current), !.current = <<>>]
                   ELSE s1
    IN [s2 EXCEPT !.escaped = FALSE]

\* default
StepDefault(st, char) ==
    LET s1 == IF st.escaped /\ st.inDoubleQuote
              THEN [st EXCEPT !.current = Append(@, BACKSLASH)]
              ELSE st
    IN [s1 EXCEPT !.current = Append(@, char), !.escaped = FALSE]

\* the body of the loop over the characters of input
ParseStep(st, char) ==
    CASE char = BACKSLASH -> StepBackslash(st)
      [] char = DQUOTE    -> StepDoubleQuote(st)
      [] char = SQUOTE    -> StepSingleQuote(st)
      [] char = SPACE     -> StepSpace(st)
      [] OTHER            -> StepDefault(st, char)

ParseFinish_DropOpenQuote(st) ==
    IF Len(st.current) > 0 /\ ~st.inSingleQuote /\ ~st.inDoubleQuote
    THEN Append(st.args, st.current)
    ELSE st.args

\* the flush after the loop
ParseFinish(st) ==
    IF Len(st.current) > 0 THEN Append(st.args, st.current) ELSE st.args

RECURSIVE ParseRun(_, _)
ParseRun(inp, n) ==
    IF n = 0 THEN ParseStart ELSE ParseStep(ParseRun(inp, n - 1), inp[n])

parseUserInput(inp) == ParseFinish(ParseRun(inp, Len(inp)))

\* strings.Join(elems, " ")
RECURSIVE JoinSpace(_)
JoinSpace(elems) ==
    IF Len(elems) = 0 THEN <<>>
    ELSE IF Len(elems) = 1 THEN elems[1]
    ELSE elems[1] \o <<SPACE>> \o JoinSpace(Tail(elems))

----------------------------------------------------------------------------
(* Strings *)

\* the bytes of the model in ascending byte order (slices.Sort compares
\* strings bytewise)
CharOrder ==
    <<"^C", " ", "$", "'", "-", ".", "/", "0", "1", ">", "a", "b", "c", "d",
      "e", "g", "h", "i", "l", "m", "n", "o", "p", "s", "t", "w", "x", "y",
      "z", "~">>

Ord(c) == CHOOSE i \in 1..Len(CharOrder) : CharOrder[i] = c

\* a < b for strings
RECURSIVE StrLess(_, _)
StrLess(a, b) ==
    IF Len(b) = 0 THEN FALSE
    ELSE IF Len(a) = 0 THEN TRUE
    ELSE IF a[1] = b[1] THEN StrLess(Tail(a), Tail(b))
    ELSE Ord(a[1]) < Ord(b[1])

\* slices.Sort of the elements of a set of strings
RECURSIVE SortStrings(_)
SortStrings(S) ==
    IF S = {} THEN <<>>
    ELSE LET m == CHOOSE x \in S : \A y \in S \ {x} : StrLess(x, y)
         IN <<m>> \o SortStrings(S \ {m})

\* strings.HasPrefix(s, prefix)
HasPrefix(s, prefix) ==
    Len(prefix) <= Len(s) /\ SubSeq(s, 1, Len(prefix)) = prefix

\* unicode.IsSpace on the bytes of the model
IsSpace(c) == c = SPACE

\* strings.Fields(s)
RECURSIVE FieldsFrom(_, _, _)
FieldsFrom(s, i, word) ==
    IF i > Len(s)
    THEN IF word = <<>> THEN <<>> ELSE <<word>>
    ELSE IF IsSpace(s[i])
         THEN IF word = <<>> THEN FieldsFrom(s, i + 1, <<>>)
              ELSE <<word>> \o FieldsFrom(s, i + 1, <<>>)
         ELSE FieldsFrom(s, i + 1, Append(word, s[i]))

Fields(s) == FieldsFrom(s, 1, <<>>)

\* strings.TrimSpace(s)
RECURSIVE TrimLeft(_)
TrimLeft(s) ==
    IF Len(s) > 0 /\ IsSpace(s[1]) THEN TrimLeft(Tail(s)) ELSE s

RECURSIVE TrimRight(_)
TrimRight(s) ==
    IF Len(s) > 0 /\ IsSpace(s[Len(s)])
    THEN TrimRight(SubSeq(s, 1, Len(s) - 1)) ELSE s

TrimSpace(s) == TrimRight(TrimLeft(s))

\* strings.Contains(s, c) for a one-byte c
ContainsChar(s, c) == \E i \in 1..Len(s) : s[i] = c

\* strings.ReplaceAll(s, old, new) for a one-byte old
RECURSIVE ReplaceAll(_, _, _)
ReplaceAll(s, old, new) ==
    IF Len(s) = 0 THEN <<>>
    ELSE (IF s[1] = old THEN new ELSE <<s[1]>>) \o ReplaceAll(Tail(s), old, new)

----------------------------------------------------------------------------
(* Paths and the file system *)

SLASH == "/"

\* the elements of a path between its slashes
RECURSIVE SplitSlash(_, _)
SplitSlash(s, elem) ==
    IF Len(s) = 0 THEN <<elem>>
    ELSE IF s[1] = SLASH THEN <<elem>> \o SplitSlash(Tail(s), <<>>)
    ELSE SplitSlash(Tail(s), Append(elem, s[1]))

RECURSIVE JoinSlash(_)
JoinSlash(elems) ==
    IF Len(elems) = 0 THEN <<>>
    ELSE IF Len(elems) = 1 THEN elems[1]
    ELSE elems[1] \o <<SLASH>> \o JoinSlash(Tail(elems))

\* path.IsAbs(p)
IsAbs(p) == Len(p) > 0 /\ p[1] = SLASH

\* the element stack of path.Clean after the first n elements
RECURSIVE CleanElems(_, _, _)
CleanElems(elems, n, rooted) ==
    IF n = 0 THEN <<>>
    ELSE LET st == CleanElems(elems, n - 1, rooted)
             e == elems[n]
         IN IF e = <<>> \/ e = <<".">> THEN st
            ELSE IF e = <<".", ".">>
                 THEN IF Len(st) > 0 /\ st[Len(st)] # <<".", ".">>
                      THEN SubSeq(st, 1, Len(st) - 1)
                      ELSE IF rooted THEN st ELSE Append(st, e)
                 ELSE Append(st, e)

\* path.Clean(p)
Clean(p) ==
    IF Len(p) = 0 THEN <<".">>
    ELSE LET elems == SplitSlash(p, <<>>)
             body == JoinSlash(CleanElems(elems, Len(elems), IsAbs(p)))
         IN IF IsAbs(p) THEN <<SLASH>> \o body
            ELSE IF body = <<>> THEN <<".">> ELSE body

\* path.Join(a, b)
PathJoin(a, b) ==
    IF a = <<>> /\ b = <<>> THEN <<>>
    ELSE IF a = <<>> THEN Clean(b)
    ELSE IF b = <<>> THEN Clean(a)
    ELSE Clean(a \o <<SLASH>> \o b)

\* the directories and the programs of the machine the shell runs on
BinDir == <<"/", "b", "i", "n">>
TmpDir == <<"/", "t", "m", "p">>
HomeDir == <<"/", "h", "o", "m", "e">>

FsDirs == {<<"/">>, BinDir, TmpDir, HomeDir}

ProgramNames ==
    {<<"c", "a", "t">>,
     <<"c", "c", "a", "c", "h", "e">>,
     <<"c", "c", "a", "c", "h", "e", "-", "s", "w", "i", "g">>,
     <<"c", "e", "c", "-", "c", "l", "i", "e", "n", "t">>,
     <<"c", "e", "c", "-", "c", "t", "l">>}

FsPrograms == {BinDir \o <<SLASH>> \o n : n \in ProgramNames}

\* os.Getenv("PATH") split on ":", and os.Getenv("HOME")
PathDirs == {BinDir}
HomeEnv == HomeDir

\* the working directory of the process, which the shell never changes
ProcCwd == TmpDir

\* the absolute form of a path handed to the operating system
AbsPath(p) == IF IsAbs(p) THEN Clean(p) ELSE PathJoin(ProcCwd, p)

RegularFiles(fs) == FsPrograms \cup DOMAIN fs

\* the proper ancestors of an absolute path
Ancestors(q) ==
    {SubSeq(q, 1, i - 1) : i \in {j \in 2..Len(q) : q[j] = SLASH}}

\* os.Stat(p) fails with an error that is os.ErrNotExist
StatNotExist(p, fs) ==
    LET q == AbsPath(p)
    IN /\ q \notin FsDirs
       /\ q \notin RegularFiles(fs)
       /\ Ancestors(q) \cap RegularFiles(fs) = {}

\* the names of the non-directory entries os.ReadDir(directory) lists
DirFileNames(directory, fs) ==
    LET d == AbsPath(directory)
        pre == IF d = <<SLASH>> THEN d ELSE Append(d, SLASH)
    IN {SubSeq(f, Len(pre) + 1, Len(f)) :
          f \in {g \in RegularFiles(fs) :
                   /\ HasPrefix(g, pre) /\ Len(g) > Len(pre)
                   /\ ~ContainsChar(SubSeq(g, Len(pre) + 1, Len(g)), SLASH)}}

----------------------------------------------------------------------------
(* The completion provider *)

\* the keys of builtinCmd after initCommands
builtinCmd ==
    {<<"e", "x", "i", "t">>, <<"e", "c", "h", "o">>, <<"t", "y", "p", "e">>,
     <<"p", "w", "d">>, <<"c", "d">>}

getLongestPrefix(matches) ==
    IF Len(matches) <= 0 THEN <<>>
    ELSE IF \E i \in 2..Len(matches) : ~HasPrefix(matches[i], matches[1])
         THEN <<>>
         ELSE matches[1]

getAutoCompletions(prefix, fs) ==
    IF Len(prefix) = 0 THEN <<>>
    ELSE SortStrings(
           {key \in builtinCmd : HasPrefix(key, prefix)}
           \cup UNION {{n \in DirFileNames(d, fs) : HasPrefix(n, prefix)} :
                         d \in PathDirs})

----------------------------------------------------------------------------
(* The builtins.  Each returns the text, the error (failed is err != nil), *)
(* whether os.Exit was called, and the value of PWD afterwards.            *)

Ok(text, dir) ==
    [out |-> text, err |-> <<>>, failed |-> FALSE, exits |-> FALSE, pwd |-> dir]

Fail(msg, dir) ==
    [out |-> <<>>, err |-> msg, failed |-> TRUE, exits |-> FALSE, pwd |-> dir]

Digits == {"0", "1", "2", "3", "4", "5", "6", "7", "8", "9"}

\* strconv.Atoi(s) succeeds
IsInt(s) ==
    LET body == IF Len(s) > 0 /\ s[1] \in {"+", "-"} THEN Tail(s) ELSE s
    IN Len(body) > 0 /\ \A i \in 1..Len(body) : body[i] \in Digits

exitCmd(a, dir) ==
    IF Len(a) = 0
    THEN Fail(<<"please provide a status code for the exit command">>, dir)
    ELSE IF Len(a) > 1
    THEN Fail(<<"too many argument provided for the exit command">>, dir)
    ELSE IF ~IsInt(a[1])
    THEN Fail(<<"strconv.Atoi: parsing \"">> \o a[1] \o <<"\": invalid syntax">>, dir)
    ELSE [Ok(<<>>, dir) EXCEPT !.exits = TRUE]

echoCmd(a, dir) ==
    IF Len(a) = 0
    THEN Fail(<<"please provide an argument for the echo command">>, dir)
    ELSE Ok(JoinSpace(a) \o <<"\n">>, dir)

\* the first directory of PATH in which command is found
typePath(command, fs) ==
    LET found == {d \in PathDirs : ~StatNotExist(PathJoin(d, command), fs)}
    IN IF found = {} THEN <<>>
       ELSE PathJoin(CHOOSE d \in found : TRUE, command)

typeCmd(a, dir, fs) ==
    IF Len(a) = 0
    THEN Fail(<<"please provide an argument for the type command">>, dir)
    ELSE IF a[1] \in builtinCmd
    THEN Ok(a[1] \o <<" is a shell builtin\n">>, dir)
    ELSE IF typePath(a[1], fs) = <<>>
    THEN Ok(a[1] \o <<": not found">> \o <<"\n">>, dir)
    ELSE Ok(a[1] \o <<" is ">> \o typePath(a[1], fs) \o <<"\n">>, dir)

pwdCmd(a, dir) ==
    IF Len(a) > 0 THEN Fail(<<"pwd: too many arguments">>, dir)
    ELSE IF dir = <<>> THEN Fail(<<"cannot get current working directory">>, dir)
    ELSE Ok(dir \o <<"\n">>, dir)

\* dirPath of cdCmd after the resolution of ~ and of a relative path
cdResolve(arg, dir) ==
    IF ~IsAbs(arg)
    THEN IF ContainsChar(arg, "~")
         THEN ReplaceAll(arg, "~", HomeEnv)
         ELSE PathJoin(dir, arg)
    ELSE arg

cdCmd(a, dir, fs) ==
    IF Len(a) = 0
    THEN Fail(<<"please provide an argument for the cd command">>, dir)
    ELSE LET dirPath == cdResolve(a[1], dir)
         IN IF StatNotExist(dirPath, fs)
            THEN Fail(<<"cd: ">> \o dirPath \o <<": No such file or directory">>, dir)
            ELSE Ok(<<>>, dirPath)

\* cmdFn(args) for the function registered under command
CallBuiltin(command, a, dir, fs) ==
    CASE command = <<"e", "x", "i", "t">> -> exitCmd(a, dir)
      [] command = <<"e", "c", "h", "o">> -> echoCmd(a, dir)
      [] command = <<"t", "y", "p", "e">> -> typeCmd(a, dir, fs)
      [] command = <<"p", "w", "d">>      -> pwdCmd(a, dir)
      [] command = <<"c", "d">>           -> cdCmd(a, dir, fs)

----------------------------------------------------------------------------
(* External programs *)

isInPath(command, fs) ==
    \E d \in PathDirs : ~StatNotExist(PathJoin(d, command), fs)

\* what a program found on the PATH can hand back to cmd.Output():
\* its standard output, and the error text of a failure
ProgResults ==
    {[out |-> <<>>,        err |-> <<>>],
     [out |-> <<"out\n">>, err |-> <<>>],
     [out |-> <<>>,        err |-> <<"err\n">>],
     [out |-> <<"out\n">>, err |-> <<"err\n">>]}

executeProgram_NotFoundAsError(command, a, fs, r) ==
    IF isInPath(command, fs) THEN r
    ELSE [out |-> <<>>, err |-> command \o <<": command not found\n">>]

executeProgram(command, a, fs, r) ==
    IF isInPath(command, fs) THEN r
    ELSE [out |-> command \o <<": command not found\n">>, err |-> <<>>]

----------------------------------------------------------------------------
(* Redirection *)

OP_GT == <<">">>
OP_1GT == <<"1", ">">>
OP_2GT == <<"2", ">">>
OP_GTGT == <<">", ">">>
OP_1GTGT == <<"1", ">", ">">>
OP_2GTGT == <<"2", ">", ">">>

isRedirectOperator(operator) ==
    operator \in {OP_1GT, OP_GT, OP_2GT, OP_GTGT, OP_1GTGT, OP_2GTGT}

RedirectIndex_Last(a) ==
    LET hits == {i \in 1..Len(a) : isRedirectOperator(a[i])}
    IN IF hits = {} THEN -1
       ELSE (CHOOSE i \in hits : \A j \in hits : j <= i) - 1

\* slices.IndexFunc(args, isRedirectOperator): 0-based, -1 when absent
RedirectIndex(a) ==
    LET hits == {i \in 1..Len(a) : isRedirectOperator(a[i])}
    IN IF hits = {} THEN -1
       ELSE (CHOOSE i \in hits : \A j \in hits : i <= j) - 1

\* the directory an absolute path other than "/" lies in
ParentDir(q) ==
    CHOOSE a \in Ancestors(q) \cup {<<SLASH>>} :
        \A b \in Ancestors(q) : Len(b) <= Len(a)

\* the error of os.WriteFile / os.OpenFile on filePath, <<>> for none
OpenError(filePath) ==
    IF AbsPath(filePath) \in FsDirs
    THEN <<"open ">> \o filePath \o <<": is a directory">>
    ELSE IF ParentDir(AbsPath(filePath)) \notin FsDirs
    THEN <<"open ">> \o filePath \o <<": no such file or directory">>
    ELSE <<>>

\* os.WriteFile(filePath, data, 0644)
WriteFile(fs, filePath, data) ==
    LET q == AbsPath(filePath)
    IN [f \in DOMAIN fs \cup {q} |-> IF f = q THEN data ELSE fs[f]]

AppendFile_Truncates(fs, filePath, data) ==
    LET q == AbsPath(filePath)
    IN [f \in DOMAIN fs \cup {q} |-> IF f = q THEN data ELSE fs[f]]

\* os.OpenFile(filePath, O_APPEND|O_CREATE|O_WRONLY, 0644) and WriteString
AppendFile(fs, filePath, data) ==
    LET q == AbsPath(filePath)
        old == IF q \in DOMAIN fs THEN fs[q] ELSE <<>>
    IN [f \in DOMAIN fs \cup {q} |-> IF f = q THEN old \o data ELSE fs[f]]

redirect_SilentMalformed(output, errorOutput, redirectedArgs, fs) ==
    IF Len(redirectedArgs) < 2
    THEN [out |-> <<>>, files |-> fs]
    ELSE LET redirectOperator == redirectedArgs[1]
             filePath == redirectedArgs[2]
             failed == OpenError(filePath) # <<>>
         IN CASE redirectOperator = OP_2GT ->
                   IF failed
                   THEN [out |-> output \o OpenError(filePath), files |-> fs]
                   ELSE [out |-> output,
                         files |-> WriteFile(fs, filePath, errorOutput)]
              [] redirectOperator = OP_2GTGT ->
                   IF failed
                   THEN [out |-> output \o OpenError(filePath), files |-> fs]
                   ELSE [out |-> output,
                         files |-> AppendFile(fs, filePath, errorOutput)]
              [] redirectOperator \in {OP_GTGT, OP_1GTGT} ->
                   IF failed
                   THEN [out |-> OpenError(filePath), files |-> fs]
                   ELSE [out |-> <<>>,
                         files |-> AppendFile(fs, filePath, output)]
              [] OTHER ->
                   IF failed
                   THEN [out |-> OpenError(filePath), files |-> fs]
                   ELSE [out |-> <<>>,
                         files |-> WriteFile(fs, filePath, output)]

\* redirect: the text written to os.Stdout and the files afterwards
redirect(output, errorOutput, redirectedArgs, fs) ==
    IF Len(redirectedArgs) < 2
    THEN [out |-> <<"please provide valid arguments for redirection">>,
          files |-> fs]
    ELSE LET redirectOperator == redirectedArgs[1]
             filePath == redirectedArgs[2]
             failed == OpenError(filePath) # <<>>
         IN CASE redirectOperator = OP_2GT ->
                   IF failed
                   THEN [out |-> output \o OpenError(filePath), files |-> fs]
                   ELSE [out |-> output,
                         files |-> WriteFile(fs, filePath, errorOutput)]
              [] redirectOperator = OP_2GTGT ->
                   IF failed
                   THEN [out |-> output \o OpenError(filePath), files |-> fs]
                   ELSE [out |-> output,
                         files |-> AppendFile(fs, filePath, errorOutput)]
              [] redirectOperator \in {OP_GTGT, OP_1GTGT} ->
                   IF failed
                   THEN [out |-> OpenError(filePath), files |-> fs]
                   ELSE [out |-> <<>>,
                         files |-> AppendFile(fs, filePath, output)]
              [] OTHER ->
                   IF failed
                   THEN [out |-> OpenError(filePath), files |-> fs]
                   ELSE [out |-> <<>>,
                         files |-> WriteFile(fs, filePath, output)]

----------------------------------------------------------------------------
(* One iteration of the loop of main after readInput has returned inp.     *)
(* r is what the external program returns if one is run.  The result is    *)
(* the text written to os.Stdout and os.Stderr, the files and PWD          *)
(* afterwards, whether the process exited, and the locals of main.         *)

NoCmd ==
    [kind |-> "none", command |-> <<>>, args |-> <<>>, redirectIndex |-> -1,
     redirectArgs |-> <<>>, output |-> <<>>, errMsg |-> <<>>]

\* lines 68-72: what main prints of the error text of an external program
ExternalStderr(redirectIndex, redirectArgs, errMsg) ==
    IF errMsg # <<>>
       /\ redirectIndex >= 0
       /\ redirectArgs[1] # OP_2GT /\ redirectArgs[1] # OP_2GTGT
    THEN errMsg
    ELSE <<>>

Locals(kind, command, a, redirectIndex, redirectArgs, output, errMsg) ==
    [kind |-> kind, command |-> command, args |-> a,
     redirectIndex |-> redirectIndex, redirectArgs |-> redirectArgs,
     output |-> output, errMsg |-> errMsg]

Effect(out, err, fs, dir, exits, c) ==
    [stdout |-> out, stderr |-> err, files |-> fs, pwd |-> dir,
     exits |-> exits, cmd |-> c]

\* lines 74-78 and 61-65: the output through redirect, or to os.Stdout
Route(output, errMsg, errOut, redirectIndex, redirectArgs, dir, fs, c) ==
    IF redirectIndex >= 0
    THEN Effect(redirect(output, errMsg, redirectArgs, fs).out, errOut,
                redirect(output, errMsg, redirectArgs, fs).files,
                dir, FALSE, c)
    ELSE Effect(output, errOut, fs, dir, FALSE, c)

\* lines 55-59: the error of a builtin and a newline, to os.Stderr
BuiltinStderr(res) ==
    IF res.failed THEN res.err \o <<"\n">> ELSE <<>>

\* lines 54-65, res being what cmdFn(args) returned
AfterBuiltin(res, command, a, redirectIndex, redirectArgs, dir, fs) ==
    IF res.exits
    THEN Effect(<<>>, <<>>, fs, dir, TRUE,
                Locals("builtin", command, a, redirectIndex, redirectArgs,
                       res.out, res.err))
    ELSE Route(res.out, res.err, BuiltinStderr(res), redirectIndex,
               redirectArgs, res.pwd, fs,
               Locals("builtin", command, a, redirectIndex, redirectArgs,
                      res.out, res.err))

\* lines 67-79, res being what executeProgram returned
AfterProgram(res, command, a, redirectIndex, redirectArgs, dir, fs) ==
    Route(res.out, res.err,
          ExternalStderr(redirectIndex, redirectArgs, res.err),
          redirectIndex, redirectArgs, dir, fs,
          Locals(IF isInPath(command, fs) THEN "external" ELSE "notfound",
                 command, a, redirectIndex, redirectArgs, res.out, res.err))

\* lines 52-79
RunCommand(command, a, redirectIndex, redirectArgs, r, dir, fs) ==
    IF command \in builtinCmd
    THEN AfterBuiltin(CallBuiltin(command, a, dir, fs),
                      command, a, redirectIndex, redirectArgs, dir, fs)
    ELSE AfterProgram(executeProgram(command, a, fs, r),
                      command, a, redirectIndex, redirectArgs, dir, fs)

\* lines 41-50: the command, and its arguments split at the first operator
SplitRedirect(command, rest, redirectIndex, r, dir, fs) ==
    IF redirectIndex >= 0
    THEN RunCommand(command, SubSeq(rest, 1, redirectIndex), redirectIndex,
                    SubSeq(rest, redirectIndex + 1, Len(rest)), r, dir, fs)
    ELSE RunCommand(command, rest, redirectIndex, <<>>, r, dir, fs)

\* lines 36-50
MainTokens(toks, r, dir, fs) ==
    IF Len(toks) = 0
    THEN Effect(<<"Please provide a command\n">>, <<>>, fs, dir, FALSE,
                [NoCmd EXCEPT !.kind = "empty"])
    ELSE SplitRedirect(toks[1], Tail(toks), RedirectIndex(Tail(toks)),
                       r, dir, fs)

MainBody_QuoteProtects(inp, r, dir, fs) ==
    IF (ContainsChar(inp, DQUOTE) \/ ContainsChar(inp, BACKSLASH))
       /\ Len(parseUserInput(TrimSpace(inp))) > 0
    THEN RunCommand(parseUserInput(TrimSpace(inp))[1],
                    Tail(parseUserInput(TrimSpace(inp))), -1, <<>>,
                    r, dir, fs)
    ELSE MainTokens(parseUserInput(TrimSpace(inp)), r, dir, fs)

\* lines 34-79
MainBody(inp, r, dir, fs) ==
    MainTokens(parseUserInput(TrimSpace(inp)), r, dir, fs)

----------------------------------------------------------------------------
(* Initial states *)

\* parseUserInput has not been entered
TokIdle ==
    /\ line = <<>>
    /\ pos = 1
    /\ args = <<>>
    /\ current = <<>>
    /\ inSingleQuote = FALSE
    /\ inDoubleQuote = FALSE
    /\ escaped = FALSE
    /\ returned = FALSE

\* the process at the top of the loop of main, after initCommands
MainStart ==
    /\ pc = "prompt"
    /\ stdout = <<>>
    /\ stderr = <<>>
    /\ files = [f \in {} |-> <<>>]
    /\ pwd = ProcCwd
    /\ ncmd = 0
    /\ cmd = NoCmd
    /\ raw = FALSE
    /\ buffer = <<>>
    /\ tabCount = 0
    /\ lastKey = ""
    /\ input = <<>>
    /\ term = "none"

Init == TokIdle /\ MainStart

\* parseUserInput called on a line
InitTok ==
    /\ line \in SeqsUpTo(TokAlphabet, MaxLineLen)
    /\ pos = 1
    /\ args = <<>>
    /\ current = <<>>
    /\ inSingleQuote = FALSE
    /\ inDoubleQuote = FALSE
    /\ escaped = FALSE
    /\ returned = FALSE
    /\ MainStart

----------------------------------------------------------------------------
(* parseUserInput, one step per character *)

TokState ==
    [args |-> args, current |-> current, inSingleQuote |-> inSingleQuote,
     inDoubleQuote |-> inDoubleQuote, escaped |-> escaped]

TokSet(st) ==
    /\ args' = st.args
    /\ current' = st.current
    /\ inSingleQuote' = st.inSingleQuote
    /\ inDoubleQuote' = st.inDoubleQuote
    /\ escaped' = st.escaped

TokAt(char) == ~returned /\ pos <= Len(line) /\ line[pos] = char

TokBackslash ==
    /\ TokAt(BACKSLASH)
    /\ TokSet(ParseStep(TokState, line[pos]))
    /\ pos' = pos + 1
    /\ UNCHANGED <<line, returned, edVars, mainVars>>

TokDoubleQuote ==
    /\ TokAt(DQUOTE)
    /\ TokSet(ParseStep(TokState, line[pos]))
    /\ pos' = pos + 1
    /\ UNCHANGED <<line, returned, edVars, mainVars>>

TokSingleQuote ==
    /\ TokAt(SQUOTE)
    /\ TokSet(ParseStep(TokState, line[pos]))
    /\ pos' = pos + 1
    /\ UNCHANGED <<line, returned, edVars, mainVars>>

TokSpace ==
    /\ TokAt(SPACE)
    /\ TokSet(ParseStep(TokState, line[pos]))
    /\ pos' = pos + 1
    /\ UNCHANGED <<line, returned, edVars, mainVars>>

TokDefault ==
    /\ ~returned /\ pos <= Len(line)
    /\ line[pos] \notin {BACKSLASH, DQUOTE, SQUOTE, SPACE}
    /\ TokSet(ParseStep(TokState, line[pos]))
    /\ pos' = pos + 1
    /\ UNCHANGED <<line, returned, edVars, mainVars>>

TokReturn ==
    /\ ~returned /\ pos = Len(line) + 1
    /\ args' = ParseFinish(TokState)
    /\ returned' = TRUE
    /\ UNCHANGED <<line, pos, current, inSingleQuote, inDoubleQuote, escaped>>
    /\ UNCHANGED <<edVars, mainVars>>

NextTok ==
    \/ TokBackslash
    \/ TokDoubleQuote
    \/ TokSingleQuote
    \/ TokSpace
    \/ TokDefault
    \/ TokReturn

SpecTokenizer == InitTok /\ [][NextTok]_vars

----------------------------------------------------------------------------
(* readInput, one step per byte read *)

TAB == "\t"
DEL == "DEL"
CTRLC == "^C"
CR == "\r"
LF == "\n"

\* the bytes that reach the default case of the switch
OtherKeys == {"e", "c", SPACE, CTRLC}

\* line 32 and lines 96-106: the prompt, term.MakeRaw succeeds, the
\* locals of readInput are declared
StartRead ==
    /\ pc = "prompt"
    /\ ncmd < MaxCmds
    /\ stdout' = <<"$ ">>
    /\ stderr' = <<>>
    /\ raw' = TRUE
    /\ buffer' = <<>>
    /\ tabCount' = 0
    /\ lastKey' = ""
    /\ input' = <<>>
    /\ term' = "none"
    /\ cmd' = NoCmd
    /\ pc' = "reading"
    /\ UNCHANGED <<tokVars, files, pwd, ncmd>>

\* lines 96-99: term.MakeRaw fails and readInput panics
StartReadFail ==
    /\ pc = "prompt"
    /\ ncmd < MaxCmds
    /\ stdout' = <<"$ ">>
    /\ stderr' = <<>>
    /\ cmd' = NoCmd
    /\ pc' = "panicked"
    /\ UNCHANGED <<tokVars, edVars, files, pwd, ncmd>>

\* case '\x7F'
KeyBackspace ==
    /\ pc = "reading"
    /\ lastKey' = DEL
    /\ IF Len(buffer) > 0
       THEN buffer' = SubSeq(buffer, 1, Len(buffer) - 1) /\ term' = "erase"
       ELSE buffer' = buffer /\ term' = "redraw"
    /\ UNCHANGED <<tokVars, mainVars, raw, tabCount, input>>

\* case '\n', '\r', and the deferred term.Restore
KeyEnter ==
    /\ pc = "reading"
    /\ \E b \in {LF, CR} : lastKey' = b
    /\ input' = buffer
    /\ buffer' = <<>>
    /\ term' = "newline"
    /\ raw' = FALSE
    /\ pc' = "dispatch"
    /\ UNCHANGED <<tokVars, tabCount, stdout, stderr, files, pwd, ncmd, cmd>>

\* lines 135-155, given the last field and its completions
TabOutcome(substring, matches, longestPrefix, buf, count) ==
    IF Len(matches) = 0
    THEN [buffer |-> buf, tabCount |-> count + 1, term |-> "bell"]
    ELSE IF Len(matches) = 1
    THEN [buffer |-> SubSeq(buf, 1, Len(buf) - Len(substring))
                       \o matches[1] \o <<SPACE>>,
          tabCount |-> 0, term |-> "redraw"]
    ELSE IF longestPrefix # <<>>
    THEN [buffer |-> longestPrefix, tabCount |-> count + 1, term |-> "redraw"]
    ELSE IF count + 1 < 2
    THEN [buffer |-> buf, tabCount |-> count + 1, term |-> "bell"]
    ELSE [buffer |-> buf, tabCount |-> 0, term |-> "list"]

\* lines 130-133
TabOnWord(substring, buf, count, fs) ==
    TabOutcome(substring, getAutoCompletions(substring, fs),
               getLongestPrefix(getAutoCompletions(substring, fs)),
               buf, count)

\* case '\t'
KeyTab ==
    /\ pc = "reading"
    /\ tabCount <= MaxTabCount
    /\ lastKey' = TAB
    /\ IF Len(Fields(buffer)) = 0
       THEN \* str[len(str)-1] is out of range: panic, deferred Restore
            /\ pc' = "panicked"
            /\ raw' = FALSE
            /\ UNCHANGED <<buffer, tabCount, term>>
       ELSE /\ buffer' = TabOnWord(Fields(buffer)[Len(Fields(buffer))],
                                   buffer, tabCount, files).buffer
            /\ tabCount' = TabOnWord(Fields(buffer)[Len(Fields(buffer))],
                                     buffer, tabCount, files).tabCount
            /\ term' = TabOnWord(Fields(buffer)[Len(Fields(buffer))],
                                 buffer, tabCount, files).term
            /\ UNCHANGED <<pc, raw>>
    /\ UNCHANGED <<tokVars, input, stdout, stderr, files, pwd, ncmd, cmd>>

\* default
KeyOther ==
    /\ pc = "reading"
    /\ Len(buffer) < MaxBuf
    /\ \E b \in OtherKeys :
          /\ lastKey' = b
          /\ buffer' = Append(buffer, b)
    /\ term' = "redraw"
    /\ UNCHANGED <<tokVars, mainVars, raw, tabCount, input>>

ReadEOF_NoRestore ==
    /\ pc = "reading"
    /\ pc' = "dispatch"
    /\ UNCHANGED <<tokVars, raw, buffer, tabCount, lastKey, input, term>>
    /\ UNCHANGED <<stdout, stderr, files, pwd, ncmd, cmd>>

\* lines 110-113: ReadByte fails, the loop is left with input unset
ReadEOF ==
    /\ pc = "reading"
    /\ raw' = FALSE
    /\ pc' = "dispatch"
    /\ UNCHANGED <<tokVars, buffer, tabCount, lastKey, input, term>>
    /\ UNCHANGED <<stdout, stderr, files, pwd, ncmd, cmd>>

----------------------------------------------------------------------------
(* main *)

W_echo == <<"e", "c", "h", "o">>
W_cat == <<"c", "a", "t">>
W_cd == <<"c", "d">>
W_pwd == <<"p", "w", "d">>
W_type == <<"t", "y", "p", "e">>
W_exit == <<"e", "x", "i", "t">>
W_xx == <<"x", "x">>
W_hi == <<"h", "i">>
W_f == <<"f">>
W_g == <<"g">>
SP == <<SPACE>>

\* the lines readInput returns in the specification that reads a whole
\* line in one step
InputLines ==
    {<<>>,
     W_echo \o SP \o W_hi,
     W_echo,
     W_cat,
     W_xx,
     W_pwd,
     W_type \o SP \o W_cat,
     W_exit \o SP \o <<"0">>,
     W_exit \o SP \o <<"a">>,
     W_cd \o SP \o BinDir,
     W_cd \o SP \o W_xx,
     W_echo \o SP \o W_hi \o SP \o OP_GT \o SP \o W_f,
     W_echo \o SP \o W_hi \o SP \o OP_GTGT \o SP \o W_f,
     W_echo \o SP \o OP_2GT \o SP \o W_f,
     W_echo \o SP \o W_hi \o SP \o OP_GT,
     W_echo \o SP \o W_hi \o SP \o OP_GT \o SP \o TmpDir,
     W_echo \o SP \o W_hi \o SP \o OP_GT \o SP \o W_xx \o <<SLASH>> \o W_f,
     W_cat \o SP \o OP_1GT \o SP \o W_f,
     W_cat \o SP \o OP_1GTGT \o SP \o W_f,
     W_cat \o SP \o OP_2GT \o SP \o W_f,
     W_cat \o SP \o OP_2GTGT \o SP \o W_f,
     W_xx \o SP \o OP_GT \o SP \o W_f,
     W_xx \o SP \o OP_2GT \o SP \o W_f,
     W_echo \o SP \o W_hi \o SP \o OP_GT \o SP \o W_f \o SP \o OP_GT \o SP \o W_g,
     W_echo \o SP \o <<DQUOTE>> \o OP_GT \o <<DQUOTE>> \o SP \o W_f,
     W_echo \o SP \o <<BACKSLASH>> \o OP_GT \o SP \o W_f,
     W_echo \o SP \o OP_GT \o SP \o W_f,
     W_exit \o SP \o <<"0">> \o SP \o OP_GT,
     W_cd \o SP \o BinDir \o <<SLASH>> \o W_cat \o <<SLASH>> \o W_xx}

\* line 32 and readInput as one step: the prompt, raw mode entered and
\* restored, and a line returned
ReadLine ==
    /\ pc = "prompt"
    /\ ncmd < MaxCmds
    /\ stdout' = <<"$ ">>
    /\ stderr' = <<>>
    /\ \E l \in InputLines : input' = l
    /\ cmd' = NoCmd
    /\ pc' = "dispatch"
    /\ UNCHANGED <<tokVars, raw, buffer, tabCount, lastKey, term>>
    /\ UNCHANGED <<files, pwd, ncmd>>

\* lines 34-79
Dispatch ==
    /\ pc = "dispatch"
    /\ \E r \in ProgResults : \E eff \in {MainBody(input, r, pwd, files)} :
          /\ stdout' = stdout \o eff.stdout
          /\ stderr' = stderr \o eff.stderr
          /\ files' = eff.files
          /\ pwd' = eff.pwd
          /\ cmd' = eff.cmd
          /\ pc' = IF eff.exits THEN "exited" ELSE "prompt"
    /\ ncmd' = ncmd + 1
    /\ UNCHANGED <<tokVars, edVars>>

Next ==
    \/ ReadLine
    \/ Dispatch

Spec == Init /\ [][Next]_vars

NextEditor ==
    \/ StartRead
    \/ StartReadFail
    \/ KeyBackspace
    \/ KeyEnter
    \/ KeyTab
    \/ KeyOther
    \/ ReadEOF
    \/ Dispatch

SpecEditor == Init /\ [][NextEditor]_vars

----------------------------------------------------------------------------
(* Claims about parseUserInput *)

NoQuotes(s) == \A i \in 1..Len(s) : s[i] \notin {SQUOTE, DQUOTE}
NoBackslash(s) == \A i \in 1..Len(s) : s[i] # BACKSLASH

\* the maximal runs of non-space characters of s, as index pairs
FieldRuns(s) ==
    {r \in (1..Len(s)) \X (1..Len(s)) :
        /\ r[1] <= r[2]
        /\ \A k \in r[1]..r[2] : s[k] # SPACE
        /\ (r[1] = 1 \/ s[r[1] - 1] = SPACE)
        /\ (r[2] = Len(s) \/ s[r[2] + 1] = SPACE)}

IsSpaceSplit(toks, s) ==
    /\ Len(toks) = Cardinality(FieldRuns(s))
    /\ \A r \in FieldRuns(s) :
          LET k == Cardinality({q \in FieldRuns(s) : q[1] <= r[1]})
          IN toks[k] = SubSeq(s, r[1], r[2])

\* C7: a line with no quotes and no backslashes tokenizes to its
\* maximal runs of non-space characters, in order; and no line ever
\* yields an empty token.
C7_SplitAndNoEmptyToken ==
    returned =>
        /\ (NoQuotes(line) /\ NoBackslash(line)) => IsSpaceSplit(args, line)
        /\ \A i \in 1..Len(args) : args[i] # <<>>

C7_Witness ==
    /\ returned
    /\ NoQuotes(line) /\ NoBackslash(line)
    /\ Len(args) = 2
    /\ \E i \in 1..(Len(line) - 1) : line[i] = SPACE /\ line[i + 1] = SPACE

OpenQuoteAtEnd == returned /\ (inSingleQuote \/ inDoubleQuote)

ClosingQuote == IF inSingleQuote THEN SQUOTE ELSE DQUOTE

\* C8 as stated: a line that ends with a quote still open tokenizes like
\* the same line followed by the matching closing quote.
C8_AsStated ==
    OpenQuoteAtEnd => args = parseUserInput(Append(line, ClosingQuote))

\* C8 amended: a line that ends with a quote still open, and not with an
\* unconsumed escaping backslash, tokenizes like the same line followed by
\* the matching closing quote.
C8_ImplicitClose ==
    (OpenQuoteAtEnd /\ ~escaped) =>
        args = parseUserInput(Append(line, ClosingQuote))

C8_Witness ==
    /\ OpenQuoteAtEnd /\ ~escaped
    /\ Len(args) = 1
    /\ Len(args[1]) >= 2

\* C9: inside double quotes, backslash followed by a double quote, a
\* backslash or a dollar sign contributes only that character; backslash
\* followed by any other character contributes both.
C9_DoubleQuoteEscapes ==
    [][(~returned /\ pos <= Len(line) /\ inDoubleQuote /\ escaped
          /\ pos' = pos + 1)
       => current' = current \o
             (IF line[pos] \in {DQUOTE, BACKSLASH, DOLLAR}
              THEN <<line[pos]>>
              ELSE <<BACKSLASH, line[pos]>>)]_vars

\* C10 as stated: for a line with no quote characters, tokenizing the
\* single-space join of the tokens gives the tokens again.
C10_AsStated ==
    (returned /\ NoQuotes(line)) => parseUserInput(JoinSpace(args)) = args

\* C10 amended: for a line with no quote characters and no backslashes,
\* tokenizing the single-space join of the tokens gives the tokens again.
C10_Idempotent ==
    (returned /\ NoQuotes(line) /\ NoBackslash(line)) =>
        parseUserInput(JoinSpace(args)) = args

C10_Witness ==
    /\ returned /\ NoQuotes(line) /\ NoBackslash(line)
    /\ Len(args) = 2
    /\ JoinSpace(args) # line

\* the number of backslashes that end the prefix of line read so far
BackslashRun ==
    CHOOSE k \in 0..(pos - 1) :
        /\ \A i \in (pos - k)..(pos - 1) : line[i] = BACKSLASH
        /\ (k = pos - 1 \/ line[pos - 1 - k] # BACKSLASH)

\* C19: after any prefix of any line, inSingleQuote and inDoubleQuote are
\* never both true and escaped is never true inside single quotes; escaped
\* is true only right after a backslash read outside single quotes that
\* nothing has consumed, that is, after an odd run of backslashes.
C19_TokenizerFlags ==
    /\ ~(inSingleQuote /\ inDoubleQuote)
    /\ ~(escaped /\ inSingleQuote)
    /\ escaped => (pos > 1 /\ line[pos - 1] = BACKSLASH
                   /\ BackslashRun % 2 = 1)

\* escaped after a single-quoted stretch has been closed
C19_Witness ==
    /\ escaped /\ ~returned
    /\ pos = 5 /\ line[1] = SQUOTE /\ line[2] = BACKSLASH

----------------------------------------------------------------------------
(* Claims about the dispatcher *)

\* C1: for a command line without a redirection directive, builtin or
\* external program found on the search path, the output text is written
\* to standard output and a non-empty error text is written to standard
\* error.
C1_NoRedirectRouting ==
    (pc = "prompt" /\ cmd.kind \in {"builtin", "external"}
       /\ cmd.redirectIndex < 0)
    => /\ stdout = <<"$ ">> \o cmd.output
       /\ cmd.errMsg # <<>> =>
             stderr \in {cmd.errMsg, cmd.errMsg \o <<"\n">>}

\* one iteration of the loop body of main
DispatchStep == pc = "dispatch" /\ pc' # "dispatch"

\* the tokens of the line being dispatched, and those after the command
Toks == parseUserInput(TrimSpace(input))

ArgToks == Tail(Toks)

RedirOps ==
    {<<">">>, <<"1", ">">>, <<">", ">">>, <<"1", ">", ">">>,
     <<"2", ">">>, <<"2", ">", ">">>}

HasOp == \E i \in 1..Len(ArgToks) : ArgToks[i] \in RedirOps

\* the position of the first operator among the argument tokens
FirstOp ==
    CHOOSE i \in 1..Len(ArgToks) :
        /\ ArgToks[i] \in RedirOps
        /\ \A j \in 1..(i - 1) : ArgToks[j] \notin RedirOps

\* every file but the one at path p is as it was
OnlyFileTouched(p) ==
    \A q \in DOMAIN files' :
        q # p => (q \in DOMAIN files /\ files'[q] = files[q])

\* C11: the arguments are the tokens before the first operator token, the
\* operator is that token and the target the token after it, no file but
\* the target is written; without an operator token the arguments are the
\* tokens unchanged and there is no directive.
C11_RedirectExtraction ==
    [][(DispatchStep /\ Len(Toks) > 0)
       => IF HasOp
          THEN /\ cmd'.args = SubSeq(ArgToks, 1, FirstOp - 1)
               /\ cmd'.redirectArgs[1] = ArgToks[FirstOp]
               /\ FirstOp < Len(ArgToks)
                     => /\ cmd'.redirectArgs[2] = ArgToks[FirstOp + 1]
                        /\ OnlyFileTouched(AbsPath(ArgToks[FirstOp + 1]))
          ELSE /\ cmd'.redirectIndex = -1
               /\ cmd'.redirectArgs = <<>>
               /\ cmd'.args = ArgToks
               /\ files' = files]_vars

\* a line with two operators was dispatched and one file exists
C11_Witness ==
    /\ pc = "prompt"
    /\ cmd.redirectIndex >= 0
    /\ Len(cmd.redirectArgs) = 4
    /\ cmd.redirectArgs[3] \in RedirOps
    /\ DOMAIN files = {AbsPath(cmd.redirectArgs[2])}

\* the first operator among the argument tokens is the last token
Malformed == Len(Toks) > 0 /\ HasOp /\ FirstOp = Len(ArgToks)

UsageMessage == "please provide valid arguments for redirection"

\* the step wrote the message about the directive to a terminal stream
WroteUsage ==
    \/ stdout' = Append(stdout, UsageMessage)
    \/ stderr' = Append(stderr, UsageMessage)

Directive ==
    /\ Len(Toks) > 0 /\ HasOp /\ FirstOp < Len(ArgToks)
    /\ OpenError(ArgToks[FirstOp + 1]) = <<>>

DirOp == ArgToks[FirstOp]

DirPath == AbsPath(ArgToks[FirstOp + 1])

\* the content of the file at path p before the step
OldContent(p) == IF p \in DOMAIN files THEN files[p] ELSE <<>>

\* C13: the error of a builtin goes to exactly one place: to the target
\* file, and not to the terminal, under 2> (truncating) and 2>>
\* (appending), and to standard error otherwise; the normal output still
\* goes to standard output under 2> and 2>>.
C13_BuiltinErrorOneDestination ==
    [][(DispatchStep /\ pc' = "prompt" /\ cmd'.kind = "builtin"
          /\ cmd'.errMsg # <<>>)
       => IF Directive /\ DirOp \in {<<"2", ">">>, <<"2", ">", ">">>}
          THEN /\ stderr' = stderr
               /\ stdout' = stdout \o cmd'.output
               /\ DirPath \in DOMAIN files'
               /\ files'[DirPath] \in
                     {(IF DirOp = <<"2", ">">> THEN <<>> ELSE OldContent(DirPath))
                         \o cmd'.errMsg \o nl : nl \in {<<>>, <<"\n">>}}
          ELSE /\ stderr' = stderr \o cmd'.errMsg \o <<"\n">>
               /\ \A q \in DOMAIN files' :
                     files'[q] \in {OldContent(q), <<>>}]_vars

TruncatingOps == {<<">">>, <<"1", ">">>, <<"2", ">">>}
ErrorOps == {<<"2", ">">>, <<"2", ">", ">">>}

\* the stream of the command of the step that its directive routes
RoutedStream == IF DirOp \in ErrorOps THEN cmd'.errMsg ELSE cmd'.output

\* C14: every command that runs with a directive whose file can be opened
\* leaves in the target file its routed stream alone when the operator
\* truncates (>, 1>, 2>) and the previous content followed by its routed
\* stream when the operator appends (>>, 1>>, 2>>); it touches no other
\* file, and a command without such a directive touches no file.  Hence the
\* file holds the stream of the latest truncating write followed, in
\* order, by the streams of the appending writes since.
C14_AppendVersusTruncate ==
    [][DispatchStep
       => IF Directive /\ pc' = "prompt"
          THEN /\ DirPath \in DOMAIN files'
               /\ files'[DirPath] =
                     (IF DirOp \in TruncatingOps THEN <<>>
                      ELSE OldContent(DirPath)) \o RoutedStream
               /\ OnlyFileTouched(DirPath)
          ELSE files' = files]_vars

\* two appending writes: the file holds an earlier stream and then the
\* output of the command just run
C14_Witness ==
    /\ pc = "prompt" /\ ncmd = 2
    /\ cmd.redirectIndex >= 0 /\ Len(cmd.redirectArgs) = 2
    /\ cmd.redirectArgs[1] \in {<<">", ">">>, <<"1", ">", ">">>}
    /\ cmd.output # <<>>
    /\ AbsPath(cmd.redirectArgs[2]) \in DOMAIN files
    /\ \E x \in {<<"h", "i", "\n">>, <<"out\n">>} :
          files[AbsPath(cmd.redirectArgs[2])] = x \o cmd.output

\* the command of the step is neither a builtin nor a program on the PATH
NotFound ==
    /\ Len(Toks) > 0
    /\ Toks[1] \notin builtinCmd
    /\ ~isInPath(Toks[1], files)

NotFoundText == Toks[1] \o <<": command not found\n">>

\* C15: a command that is neither a builtin nor on the search path has the
\* output "<command>: command not found\n" and an empty error; the text
\* goes to standard output without a directive and under 2> and 2>>, and
\* into the target file, with nothing on standard output or standard
\* error, under >, 1>, >> and 1>>; standard error never receives it.
C15_CommandNotFound ==
    [][(DispatchStep /\ NotFound /\ (HasOp => Directive))
       => /\ cmd'.output = NotFoundText
          /\ cmd'.errMsg = <<>>
          /\ stderr' = stderr
          /\ pc' = "prompt"
          /\ IF HasOp /\ DirOp \notin ErrorOps
             THEN /\ stdout' = stdout
                  /\ DirPath \in DOMAIN files'
                  /\ files'[DirPath] =
                        (IF DirOp \in TruncatingOps THEN <<>>
                         ELSE OldContent(DirPath)) \o NotFoundText
             ELSE /\ stdout' = stdout \o NotFoundText
                  /\ IF HasOp
                     THEN /\ OnlyFileTouched(DirPath)
                          /\ files'[DirPath] =
                                IF DirOp \in TruncatingOps THEN <<>>
                                ELSE OldContent(DirPath)
                     ELSE files' = files]_vars

\* xx > f has run: the text is in the file and not on the terminal
C15_Witness ==
    /\ pc = "prompt"
    /\ cmd.kind = "notfound"
    /\ cmd.redirectIndex >= 0 /\ Len(cmd.redirectArgs) = 2
    /\ cmd.redirectArgs[1] = <<">">>
    /\ files[AbsPath(cmd.redirectArgs[2])] =
          cmd.command \o <<": command not found\n">>
    /\ stdout = <<"$ ">> /\ stderr = <<>>

\* the step runs cd with a path argument
CdCall == Len(Toks) >= 2 /\ Toks[1] = <<"c", "d">> /\ ~HasOp

\* the directory or file cd's argument resolves to exists
CdTargetExists ==
    AbsPath(cdResolve(Toks[2], pwd)) \in FsDirs \cup RegularFiles(files)

\* C17: cd of a path whose resolved target does not exist leaves PWD
\* unchanged and returns "cd: <path>: No such file or directory", <path>
\* being the argument; PWD changes only in a cd whose target exists.
C17_CdMissingTarget ==
    [][DispatchStep
       => /\ (CdCall /\ ~CdTargetExists)
             => /\ pwd' = pwd
                /\ cmd'.errMsg = <<"cd: ">> \o Toks[2]
                                    \o <<": No such file or directory">>
          /\ pwd' # pwd => (CdCall /\ CdTargetExists)]_vars

\* the step has the effect that dispatching the line l has in this state
DispatchedAs(l) ==
    \E r \in ProgResults :
        /\ stdout' = stdout \o MainBody(l, r, pwd, files).stdout
        /\ stderr' = stderr \o MainBody(l, r, pwd, files).stderr
        /\ files' = MainBody(l, r, pwd, files).files
        /\ pwd' = MainBody(l, r, pwd, files).pwd
        /\ cmd' = MainBody(l, r, pwd, files).cmd
        /\ (pc' = "exited") = MainBody(l, r, pwd, files).exits

Quoted(l) == ContainsChar(l, DQUOTE) \/ ContainsChar(l, BACKSLASH)

\* C20: quoting or escaping does not protect an operator: a line is
\* dispatched exactly as every other line with the same token list is, and
\* a token equal to an operator, however it was written, is never among
\* the arguments passed to the command.
C20_QuotedOperator ==
    [][DispatchStep
       => /\ \A l \in InputLines :
                parseUserInput(TrimSpace(l)) = Toks => DispatchedAs(l)
          /\ \A i \in 1..Len(cmd'.args) : cmd'.args[i] \notin RedirOps
          /\ (Quoted(input) /\ Len(Toks) > 0 /\ HasOp)
                => (cmd'.redirectIndex >= 0
                    /\ cmd'.redirectArgs[1] \in RedirOps)]_vars

\* echo ">" f has run: the quoted operator was taken as the directive
C20_Witness ==
    /\ pc = "prompt"
    /\ ContainsChar(input, DQUOTE)
    /\ cmd.command = <<"e", "c", "h", "o">> /\ cmd.args = <<>>
    /\ cmd.redirectIndex = 0
    /\ cmd.redirectArgs = <<<<">">>, <<"f">>>>
    /\ AbsPath(<<"f">>) \in DOMAIN files

----------------------------------------------------------------------------
(* Claims about the line editor *)

\* the buffer holds no word: it is empty or all whitespace
BlankBuffer == \A i \in 1..Len(buffer) : buffer[i] = SPACE

\* the last whitespace-delimited word of the buffer, as an index pair
LastRun ==
    CHOOSE r \in FieldRuns(buffer) : \A q \in FieldRuns(buffer) : q[1] <= r[1]

LastWord == SubSeq(buffer, LastRun[1], LastRun[2])

BeforeLastWord == SubSeq(buffer, 1, LastRun[1] - 1)

Candidates == getAutoCompletions(LastWord, files)

\* the longest string that is a prefix of every candidate
CommonPrefix(C) ==
    LET common == {k \in 0..Len(C[1]) :
                     \A i \in 1..Len(C) : HasPrefix(C[i], SubSeq(C[1], 1, k))}
    IN SubSeq(C[1], 1, CHOOSE k \in common : \A j \in common : j <= k)

\* C2: the byte 0x03 terminates the process and is never appended to the
\* input buffer.
C2_CtrlCTerminates ==
    /\ lastKey = CTRLC => pc = "exited"
    /\ CTRLC \notin Range(buffer)

\* C3: Tab on an empty or all-whitespace buffer rings the bell, leaves the
\* buffer unchanged and the editor keeps reading.
C3_TabOnBlankBuffer ==
    [][(KeyTab /\ BlankBuffer)
       => (pc' = "reading" /\ buffer' = buffer /\ term' = "bell")]_vars

\* C4: Tab with exactly one candidate for the last word replaces that word
\* by the candidate and one space, keeps the text before the word, and
\* resets the tab counter, also when the buffer ends in whitespace.
C4_UniqueCompletion ==
    [][(KeyTab /\ ~BlankBuffer /\ Len(Candidates) = 1)
       => /\ buffer' = BeforeLastWord \o Candidates[1] \o <<SPACE>>
          /\ tabCount' = 0]_vars

\* C5: Tab with several candidates changes the buffer exactly when their
\* longest common prefix is strictly longer than the word; then only the
\* word is replaced, by that prefix; otherwise the bell or the list follows.
C5_AmbiguousCompletion ==
    [][(KeyTab /\ ~BlankBuffer /\ Len(Candidates) > 1)
       => /\ (buffer' # buffer)
                <=> (Len(CommonPrefix(Candidates)) > Len(LastWord))
          /\ buffer' # buffer
                => buffer' = BeforeLastWord \o CommonPrefix(Candidates)
          /\ buffer' = buffer => term' \in {"bell", "list"}]_vars

\* the word has several candidates and none extends it
Ambiguous ==
    /\ ~BlankBuffer
    /\ Len(Candidates) > 1
    /\ CommonPrefix(Candidates) = LastWord

\* C6: the first Tab on an ambiguous word rings the bell and leaves the
\* buffer unchanged; the list is printed, the buffer unchanged, only by a
\* Tab that immediately follows such a bell-ringing Tab.
C6_ConsecutiveTabs ==
    [][/\ (KeyTab /\ Ambiguous /\ ~(lastKey = TAB /\ term = "bell"))
          => (term' = "bell" /\ buffer' = buffer)
       /\ (KeyTab /\ term' = "list")
          => (lastKey = TAB /\ term = "bell" /\ Ambiguous
              /\ buffer' = buffer)]_vars


\* C18: for every non-empty sorted candidate list, here the candidates of
\* the word being typed, getLongestPrefix returns the longest string that
\* is a prefix of every candidate.
C18_LongestCommonPrefix ==
    (pc = "reading" /\ ~BlankBuffer /\ Len(Candidates) >= 1)
    => getLongestPrefix(Candidates) = CommonPrefix(Candidates)

\* C16: the terminal is in raw mode exactly while readInput is reading:
\* MakeRaw at the start of every read, and the deferred Restore on Enter,
\* on a failed ReadByte and on a panic inside the read, so the terminal is
\* never raw while main prints the prompt, dispatches, or has ended.
C16_TerminalMode == raw <=> (pc = "reading")

\* a second read was left by the panic of Tab on a blank buffer
C16_Witness ==
    /\ pc = "panicked" /\ lastKey = TAB /\ ncmd >= 1
    /\ cmd = NoCmd /\ ~raw

====
